---------------------------- MODULE Spec2Model ----------------------------
(***************************************************************************)
(* A model of b2Rope (src/src/rope/b2_rope.cpp): a chain of point masses   *)
(* with stretch and bend constraints, stepped by Step(dt, iterations,      *)
(* position).                                                              *)
(*                                                                         *)
(* Numbers.  The code computes in IEEE-754 binary32, and so does the       *)
(* model.  A float is a record [s, m, e]: sign s (1 for negative) and      *)
(* magnitude m * 2^e, with 2^23 <= m < 2^24 and EMin <= e <= EMax for a    *)
(* normal number, 0 < m < 2^23 and e = EMin for a subnormal, m = 0 and     *)
(* e = 0 for a zero of either sign.  Every operation rounds its exact      *)
(* result to nearest, ties to even; a result beyond the largest finite     *)
(* float is infinite, one below half the least subnormal is zero; x / 0    *)
(* is infinite and 0 / 0, inf * 0 and inf - inf are NaN.  The integers of  *)
(* the model are 32 bits wide, so a product is formed from 12-bit halves   *)
(* and a quotient or root digit by digit.  atan2f and expf are computed    *)
(* as the C library computes them: atan2f by argument reduction and a      *)
(* polynomial in float arithmetic, expf by a table of 2^(j/32) and a       *)
(* cubic in double arithmetic.                                             *)
(*                                                                         *)
(* Intermediate values are passed as operator arguments rather than bound  *)
(* by LET, so that each is computed once.                                  *)
(***************************************************************************)
EXTENDS Integers, Sequences, FiniteSets, TLC

(***************************************************************************)
(* Floating-point arithmetic                                               *)
(***************************************************************************)
\* FLT_MANT_DIG: bits of the significand
Prec == 24

\* exponent of the unit of the significand: least (subnormals and the least
\* normals) and greatest (FLT_MAX = (2^24 - 1) * 2^104)
EMin == -149
EMax == 104

Pow2Tab == << 1, 2, 4, 8, 16, 32, 64, 128, 256, 512, 1024, 2048, 4096, 8192,
              16384, 32768, 65536, 131072, 262144, 524288, 1048576, 2097152,
              4194304, 8388608, 16777216, 33554432, 67108864, 134217728,
              268435456, 536870912, 1073741824 >>

Pow2(n) == Pow2Tab[n + 1]

Abs(x) == IF x < 0 THEN -x ELSE x

Max(a, b) == IF a >= b THEN a ELSE b

\* number of significant bits of a, 0 < a < 2^31
BitLen1(a) == IF a >= 2 THEN 2 ELSE 1
BitLen2(a) == IF a >= 4 THEN 2 + BitLen1(a \div 4) ELSE BitLen1(a)
BitLen4(a) == IF a >= 16 THEN 4 + BitLen2(a \div 16) ELSE BitLen2(a)
BitLen8(a) == IF a >= 256 THEN 8 + BitLen4(a \div 256) ELSE BitLen4(a)
BitLen(a) == IF a >= 65536 THEN 16 + BitLen8(a \div 65536) ELSE BitLen8(a)

ExpSpecial == 9999

F(s, m, e) == [s |-> s, m |-> m, e |-> e]

NaN    == F(0, 0, ExpSpecial)
Inf(s) == F(s, 1, ExpSpecial)
PosInf == Inf(0)
NegInf == Inf(1)
SignedZero(s) == F(s, 0, 0)
Zero    == SignedZero(0)
NegZero == SignedZero(1)

IsNaN(x) == x.e = ExpSpecial /\ x.m = 0
IsInf(x) == x.e = ExpSpecial /\ x.m # 0
IsFinite(x) == x.e # ExpSpecial
IsZero(x) == x.e # ExpSpecial /\ x.m = 0

\* the sign of a product or quotient
SignXor(x, y) == (x.s + y.s) % 2

\* x with sign s
WithSign(s, x) == IF IsNaN(x) THEN NaN ELSE F(s, x.m, x.e)

\* a rounded significand m at exponent e: overflow gives infinity
Pack(s, m, e) ==
  IF m = 0 THEN SignedZero(s) ELSE IF e > EMax THEN Inf(s) ELSE F(s, m, e)

\* q1 <= 2^Prec already rounded, at exponent e
RoundCarry(s, q1, e) ==
  IF q1 = Pow2(Prec) THEN Pack(s, Pow2(Prec - 1), e + 1) ELSE Pack(s, q1, e)

\* q and the k bits r shifted out of it: to nearest, ties to even
RoundShift(s, q, r, k, e) ==
  RoundCarry(s,
             IF r > Pow2(k - 1) \/ (r = Pow2(k - 1) /\ q % 2 = 1) THEN q + 1 ELSE q,
             e)

\* M * 2^E brought to exponent E + k
RoundTo(s, M, E, k) ==
  IF k <= 0 THEN Pack(s, M * Pow2(-k), E + k)
  ELSE IF k >= 31 THEN (IF k = 31 /\ M > Pow2(30) THEN Pack(s, 1, E + k)
                        ELSE SignedZero(s))
  ELSE RoundShift(s, M \div Pow2(k), M % Pow2(k), k, E + k)

\* a of n bits: the result's exponent is E + n - Prec, or EMin if that is less
RoundAbs(s, a, n, E) == RoundTo(s, a, E, Max(E + n - Prec, EMin) - E)

\* the float nearest to (-1)^s * M * 2^E, for an integer 0 <= M < 2^31
Round(s, M, E) == IF M = 0 THEN SignedZero(s) ELSE RoundAbs(s, M, BitLen(M), E)

\* (float) n for an int n, and n / 2^k
FInt(n) == Round(IF n < 0 THEN 1 ELSE 0, Abs(n), 0)
FDyadic(n, k) == Round(IF n < 0 THEN 1 ELSE 0, Abs(n), -k)

FNeg(x) == IF IsNaN(x) THEN NaN ELSE F(1 - x.s, x.m, x.e)

\* significand and exponent of a finite non-zero x with the significand
\* brought to Prec bits (a subnormal's exponent goes below EMin)
NormM(x) == x.m * Pow2(Prec - BitLen(x.m))
NormE(x) == x.e - (Prec - BitLen(x.m))

\* a shifted right by d bits, the bits shifted out kept as a sticky last bit
ShiftSticky(a, d) ==
  IF d = 0 THEN a
  ELSE IF d >= 28 THEN 1
  ELSE IF a % Pow2(d) = 0 THEN a \div Pow2(d)
  ELSE 2 * (a \div Pow2(d + 1)) + 1

\* (-1)^s1 * A + (-1)^s2 * B, in units of 2^E
AddSigned(s1, A, s2, B, E) ==
  IF s1 = s2 THEN Round(s1, A + B, E)
  ELSE IF A > B THEN Round(s1, A - B, E)
  ELSE IF B > A THEN Round(s2, B - A, E)
  ELSE Zero

\* hi + lo for finite non-zero hi, lo with hi.e >= lo.e: three more bits
\* than the significand, the rest of lo sticky
FAddAligned(hi, lo) ==
  AddSigned(hi.s, hi.m * 8, lo.s, ShiftSticky(lo.m * 8, hi.e - lo.e), hi.e - 3)

FAdd(x, y) ==
  IF IsNaN(x) \/ IsNaN(y) THEN NaN
  ELSE IF IsInf(x) THEN (IF IsInf(y) /\ y.s # x.s THEN NaN ELSE x)
  ELSE IF IsInf(y) THEN y
  ELSE IF x.m = 0 /\ y.m = 0 THEN SignedZero(IF x.s = 1 /\ y.s = 1 THEN 1 ELSE 0)
  ELSE IF x.m = 0 THEN y
  ELSE IF y.m = 0 THEN x
  ELSE IF x.e >= y.e THEN FAddAligned(x, y) ELSE FAddAligned(y, x)

FSub(x, y) == FAdd(x, FNeg(y))

\* the 48-bit product hi * 2^24 + lo, in units of 2^E
MulRound(s, hi, lo, E) ==
  Round(s, hi * 32 + (lo \div Pow2(20)) * 2 + (IF lo % Pow2(20) = 0 THEN 0 ELSE 1),
        E + 19)

MulLow(s, h, low, E) == MulRound(s, h + low \div Pow2(24), low % Pow2(24), E)

MulLimbs(s, hh, mid, ll, E) ==
  MulLow(s, hh + mid \div 4096, (mid % 4096) * 4096 + ll, E)

\* a * b * 2^E for significands a, b of Prec bits, from their 12-bit halves
MulMag(s, a, b, E) ==
  MulLimbs(s, (a \div 4096) * (b \div 4096),
           (a \div 4096) * (b % 4096) + (a % 4096) * (b \div 4096),
           (a % 4096) * (b % 4096), E)

FMul(x, y) ==
  IF IsNaN(x) \/ IsNaN(y) THEN NaN
  ELSE IF IsInf(x) \/ IsInf(y)
       THEN (IF x.m = 0 \/ y.m = 0 THEN NaN ELSE Inf(SignXor(x, y)))
  ELSE IF x.m = 0 \/ y.m = 0 THEN SignedZero(SignXor(x, y))
  ELSE MulMag(SignXor(x, y), NormM(x), NormM(y), NormE(x) + NormE(y))

RECURSIVE DivChunk(_, _, _, _, _, _)
\* long division, 7 bits of quotient a pass; the last remainder is sticky
DivChunk(s, q, r, b, n, E) ==
  IF n = 0 THEN Round(s, 2 * q + (IF r = 0 THEN 0 ELSE 1), E)
  ELSE DivChunk(s, q * 128 + (r * 128) \div b, (r * 128) % b, b, n - 1, E)

\* a / b * 2^E for significands a, b of Prec bits
FDivMag(s, a, b, E) == DivChunk(s, a \div b, a % b, b, 4, E - 29)

FDiv(x, y) ==
  IF IsNaN(x) \/ IsNaN(y) THEN NaN
  ELSE IF IsInf(x) THEN (IF IsInf(y) THEN NaN ELSE Inf(SignXor(x, y)))
  ELSE IF IsInf(y) THEN SignedZero(SignXor(x, y))
  ELSE IF y.m = 0 THEN (IF x.m = 0 THEN NaN ELSE Inf(SignXor(x, y)))
  ELSE IF x.m = 0 THEN SignedZero(SignXor(x, y))
  ELSE FDivMag(SignXor(x, y), NormM(x), NormM(y), NormE(x) - NormE(y))

\* |x| < |y| for x, y not NaN
MagLess(x, y) ==
  IF y.m = 0 THEN FALSE
  ELSE IF x.m = 0 THEN TRUE
  ELSE x.e < y.e \/ (x.e = y.e /\ x.m < y.m)

\* comparisons as the code's operators make them: false on NaN, -0 = +0
FLt(x, y) ==
  IF IsNaN(x) \/ IsNaN(y) THEN FALSE
  ELSE IF x.m = 0 /\ y.m = 0 THEN FALSE
  ELSE IF x.s # y.s THEN x.s = 1
  ELSE IF x.s = 0 THEN MagLess(x, y)
  ELSE MagLess(y, x)

FGt(x, y) == FLt(y, x)

FEq(x, y) == ~IsNaN(x) /\ ~IsNaN(y) /\ ((x.m = 0 /\ y.m = 0) \/ x = y)

RECURSIVE ISqrtBits(_, _, _)
\* floor(sqrt(a)): r built bit by bit from bit b down
ISqrtBits(a, r, b) ==
  IF b < 0 THEN r
  ELSE ISqrtBits(a, IF r + Pow2(b) <= a \div (r + Pow2(b)) THEN r + Pow2(b) ELSE r,
                 b - 1)

ISqrt(a) == ISqrtBits(a, 0, 12)

RECURSIVE SqrtPairs(_, _, _)
\* n more bits of a square root: root so far and remainder; each pass
\* brings down two zero bits of the radicand; the last remainder is sticky
SqrtPairs(root, rem, n) ==
  IF n = 0 THEN 2 * root + (IF rem = 0 THEN 0 ELSE 1)
  ELSE IF rem * 4 >= root * 4 + 1
       THEN SqrtPairs(root * 2 + 1, rem * 4 - (root * 4 + 1), n - 1)
       ELSE SqrtPairs(root * 2, rem * 4, n - 1)

FSqrtRound(a, r, E) == Round(0, SqrtPairs(r, a - r * r, 13), E - 14)

\* sqrt(a * 2^(2E)) for 2^23 <= a < 2^25
FSqrtScaled(a, E) == FSqrtRound(a, ISqrt(a), E)

FSqrtNorm(m, e) ==
  IF e % 2 = 0 THEN FSqrtScaled(m, e \div 2) ELSE FSqrtScaled(2 * m, (e - 1) \div 2)

\* sqrtf
FSqrt(x) ==
  IF IsNaN(x) THEN NaN
  ELSE IF x.m = 0 THEN x
  ELSE IF x.s = 1 THEN NaN
  ELSE IF IsInf(x) THEN PosInf
  ELSE FSqrtNorm(NormM(x), NormE(x))

\* the float nearest to n / d, for integers of at most Prec bits
FRat(n, d) == FDiv(FInt(n), FInt(d))

One == FInt(1)
Two == FInt(2)

(***************************************************************************)
(* Math helpers of the library the rope is built on                        *)
(***************************************************************************)
\* 3.14159265359f
b2_pi == FDyadic(13176795, 22)

\* FLT_EPSILON
b2_epsilon == FDyadic(1, 23)

V2(x, y) == [x |-> x, y |-> y]
VZero == V2(Zero, Zero)
VAdd(a, b) == V2(FAdd(a.x, b.x), FAdd(a.y, b.y))
VSub(a, b) == V2(FSub(a.x, b.x), FSub(a.y, b.y))
VNeg(a) == V2(FNeg(a.x), FNeg(a.y))
VScale(s, a) == V2(FMul(s, a.x), FMul(s, a.y))
VEq(a, b) == FEq(a.x, b.x) /\ FEq(a.y, b.y)
b2Dot(a, b) == FAdd(FMul(a.x, b.x), FMul(a.y, b.y))
b2Cross(a, b) == FSub(FMul(a.x, b.y), FMul(a.y, b.x))
Skew(a) == V2(FNeg(a.y), a.x)
LengthSquared(a) == FAdd(FMul(a.x, a.x), FMul(a.y, a.y))
Length(a) == FSqrt(LengthSquared(a))
b2Distance(a, b) == Length(VSub(a, b))

NormalizeLen(a, len) ==
  IF FLt(len, b2_epsilon)
  THEN [v |-> a, len |-> Zero]
  ELSE [v |-> VScale(FDiv(One, len), a), len |-> len]

\* b2Vec2::Normalize: the vector scaled to unit length and its former length;
\* a vector shorter than b2_epsilon is left alone and 0 is returned
Normalize(a) == NormalizeLen(a, Length(a))

\* the bit pattern of |x| for a finite x, as the library's GET_FLOAT_WORD
\* with the sign masked off reads it
AbsWord(x) == IF x.m = 0 THEN 0 ELSE (x.e - EMin) * Pow2(Prec - 1) + x.m

\* constants of atanf: atan(0.5), atan(1), atan(1.5), atan(inf), each in a
\* high and a low part, and the coefficients of the polynomial
atanhi == << F(0, 15557432, -25), F(0, 13176794, -24), F(0, 16488542, -24), F(0, 13176794, -23) >>
atanlo == << F(0, 11286377, -51), F(0, 10625384, -48), F(0, 9703348, -48), F(0, 10625384, -47) >>
aT == << F(0, 11184811, -25), F(1, 13421773, -26), F(0, 9586981, -26), F(1, 14913080, -27), F(0, 12201582, -27), F(1, 10323861, -27), F(0, 8940341, -27), F(1, 15659371, -28), F(0, 13359705, -28), F(1, 9806369, -28), F(0, 8743383, -29) >>

\* s1 = z*(aT[0]+w*(aT[2]+w*(aT[4]+w*(aT[6]+w*(aT[8]+w*aT[10])))))
AtanS1(z, w) ==
  FMul(z, FAdd(aT[1], FMul(w, FAdd(aT[3], FMul(w, FAdd(aT[5], FMul(w,
          FAdd(aT[7], FMul(w, FAdd(aT[9], FMul(w, aT[11])))))))))))

\* s2 = w*(aT[1]+w*(aT[3]+w*(aT[5]+w*(aT[7]+w*aT[9]))))
AtanS2(w) ==
  FMul(w, FAdd(aT[2], FMul(w, FAdd(aT[4], FMul(w, FAdd(aT[6], FMul(w,
          FAdd(aT[8], FMul(w, aT[10])))))))))

\* x*(s1+s2) with z = x*x, w = z*z
AtanPoly(x, z) == FMul(x, FAdd(AtanS1(z, FMul(z, z)), AtanS2(FMul(z, z))))

\* |x| < 0.4375: x - x*(s1+s2)
AtanNear(x) == FSub(x, AtanPoly(x, FMul(x, x)))

\* the reduced argument r of interval id: atanhi[id] - ((r*(s1+s2) - atanlo[id]) - r)
AtanFar(r, id) ==
  FSub(atanhi[id + 1], FSub(FSub(AtanPoly(r, FMul(r, r)), atanlo[id + 1]), r))

\* argument reduction for 0.4375 <= a < 2^25
AtanReduce(a) ==
  IF FLt(a, FDyadic(19, 4))
  THEN (IF FLt(a, FDyadic(11, 4))
        THEN AtanFar(FDiv(FSub(FMul(Two, a), One), FAdd(Two, a)), 0)
        ELSE AtanFar(FDiv(FSub(a, One), FAdd(a, One)), 1))
  ELSE (IF FLt(a, FDyadic(39, 4))
        THEN AtanFar(FDiv(FSub(a, FDyadic(3, 1)), FAdd(One, FMul(FDyadic(3, 1), a))), 2)
        ELSE AtanFar(FDiv(FNeg(One), a), 3))

AtanBig == 25

\* atanf(x)
Atanf(x) ==
  IF IsNaN(x) THEN NaN
  ELSE IF ~FLt(WithSign(0, x), F(0, Pow2(Prec - 1), AtanBig - (Prec - 1)))
       THEN WithSign(x.s, FAdd(atanhi[4], atanlo[4]))
  ELSE IF FLt(WithSign(0, x), FDyadic(7, 4))
       THEN (IF FLt(WithSign(0, x), FDyadic(1, 29)) THEN x ELSE AtanNear(x))
  ELSE WithSign(x.s, AtanReduce(WithSign(0, x)))

pi_o_4 == F(0, 13176795, -24)
pi_o_2 == F(0, 13176795, -23)
pi_lo  == F(1, 12303662, -47)

\* the quadrant: m = 2 * sign(x) + sign(y)
AtanQuadrant(y, x, z) ==
  IF x.s = 0 THEN (IF y.s = 0 THEN z ELSE FNeg(z))
  ELSE IF y.s = 0 THEN FSub(b2_pi, FSub(z, pi_lo))
  ELSE FSub(FSub(z, pi_lo), b2_pi)

\* finite non-zero y and x; k = (iy - ix) >> 23
AtanRatio(y, x, k) ==
  AtanQuadrant(y, x,
    IF k > 60 THEN FAdd(pi_o_2, FMul(FDyadic(1, 1), pi_lo))
    ELSE IF x.s = 1 /\ k < -60 THEN Zero
    ELSE Atanf(WithSign(0, FDiv(y, x))))

AtanFinite(y, x) == AtanRatio(y, x, (AbsWord(y) - AbsWord(x)) \div Pow2(Prec - 1))

\* an infinite x, and an infinite y with a finite x
AtanInf(y, x) ==
  IF IsInf(x)
  THEN (IF IsInf(y)
        THEN (IF x.s = 0 THEN WithSign(y.s, pi_o_4)
              ELSE WithSign(y.s, FMul(FInt(3), pi_o_4)))
        ELSE (IF x.s = 0 THEN SignedZero(y.s) ELSE WithSign(y.s, b2_pi)))
  ELSE WithSign(y.s, pi_o_2)

\* atan2f(y, x), in [-pi, pi]: the sign is y's, a zero's sign included
b2Atan2(y, x) ==
  IF IsNaN(x) \/ IsNaN(y) THEN NaN
  ELSE IF x = One THEN Atanf(y)
  ELSE IF y.m = 0 THEN (IF x.s = 1 THEN WithSign(y.s, b2_pi) ELSE y)
  ELSE IF x.m = 0 THEN WithSign(y.s, pi_o_2)
  ELSE IF IsInf(y) \/ IsInf(x) THEN AtanInf(y, x)
  ELSE AtanFinite(y, x)

(***************************************************************************)
(* expf computes in double precision.  A double is a record [s, m, e] with *)
(* the 53-bit significand m held as four 14-bit limbs, least significant   *)
(* first; m = 0 for zero.  The doubles expf meets are finite and normal.   *)
(***************************************************************************)
LimbBits == 14

\* DBL_MANT_DIG
DPrec == 53

\* limb i of a natural number held as a sequence of limbs
Limb(N, i) == IF i >= 1 /\ i <= Len(N) THEN N[i] ELSE 0

RECURSIVE CarryFrom(_, _, _)
\* the limbs of a number given by column sums, carries (or borrows) passed up
CarryFrom(cols, i, c) ==
  IF i > Len(cols) /\ c = 0 THEN << >>
  ELSE << (Limb(cols, i) + c) % Pow2(LimbBits) >>
       \o CarryFrom(cols, i + 1, (Limb(cols, i) + c) \div Pow2(LimbBits))

BigAdd(A, B) == CarryFrom([i \in 1 .. Max(Len(A), Len(B)) |-> Limb(A, i) + Limb(B, i)], 1, 0)

\* A - B for A >= B
BigSub(A, B) == CarryFrom([i \in 1 .. Max(Len(A), Len(B)) |-> Limb(A, i) - Limb(B, i)], 1, 0)

\* A * B for A of at most four limbs
BigMul(A, B) ==
  CarryFrom([k \in 1 .. Len(B) + 3 |->
               Limb(A, 1) * Limb(B, k) + Limb(A, 2) * Limb(B, k - 1)
               + Limb(A, 3) * Limb(B, k - 2) + Limb(A, 4) * Limb(B, k - 3)], 1, 0)

RECURSIVE TopBits(_, _)
TopBits(N, i) ==
  IF i = 0 THEN 0
  ELSE IF N[i] # 0 THEN (i - 1) * LimbBits + BitLen(N[i])
  ELSE TopBits(N, i - 1)

\* number of significant bits, 0 for zero
BigBits(N) == TopBits(N, Len(N))

RECURSIVE BigLessFrom(_, _, _)
BigLessFrom(A, B, i) ==
  IF i = 0 THEN FALSE
  ELSE IF Limb(A, i) # Limb(B, i) THEN Limb(A, i) < Limb(B, i)
  ELSE BigLessFrom(A, B, i - 1)

BigLess(A, B) == BigLessFrom(A, B, Max(Len(A), Len(B)))

\* N shifted right by q limbs and b bits, as L limbs
BigShrBy(N, q, b, L) ==
  [i \in 1 .. L |->
     Limb(N, i + q) \div Pow2(b) + (Limb(N, i + q + 1) % Pow2(b)) * Pow2(LimbBits - b)]

BigShr(N, k, L) == BigShrBy(N, k \div LimbBits, k % LimbBits, L)

\* N shifted left by q limbs and b bits, as L limbs
BigShlBy(N, q, b, L) ==
  [i \in 1 .. L |->
     (Limb(N, i - q) % Pow2(LimbBits - b)) * Pow2(b) + Limb(N, i - q - 1) \div Pow2(LimbBits - b)]

BigShl(N, k, L) == BigShlBy(N, k \div LimbBits, k % LimbBits, L)

\* the lowest q limbs and b bits of N are zero
BigLowZeroBy(N, q, b) == (\A i \in 1 .. q : Limb(N, i) = 0) /\ Limb(N, q + 1) % Pow2(b) = 0

BigLowZero(N, k) == BigLowZeroBy(N, k \div LimbBits, k % LimbBits)

D(s, m, e) == [s |-> s, m |-> m, e |-> e]
DZero(s) == D(s, << 0, 0, 0, 0 >>, 0)
DIsZero(x) == \A i \in DOMAIN x.m : x.m[i] = 0
DOne == D(0, << 0, 0, 0, 1024 >>, -52)

\* a rounded significand q1 <= 2^53
DCarry(s, q1, e) ==
  IF BigBits(q1) > DPrec THEN D(s, BigShr(q1, 1, 4), e + 1) ELSE D(s, BigShr(q1, 0, 4), e)

\* G: the significand and one guard bit below it; st: bits below are not all zero
DRoundGuard(s, G, st, e) ==
  IF G[1] % 2 = 1 /\ (st \/ (G[1] \div 2) % 2 = 1)
  THEN DCarry(s, BigAdd(BigShr(G, 1, 4), << 1 >>), e)
  ELSE DCarry(s, BigShr(G, 1, 4), e)

DRoundBits(s, N, n, E) ==
  IF n <= DPrec
  THEN D(s, BigShl(N, DPrec - n, 4), E - (DPrec - n))
  ELSE DRoundGuard(s, BigShr(N, n - DPrec - 1, 4), ~BigLowZero(N, n - DPrec - 1),
                   E + n - DPrec)

\* the double nearest to (-1)^s * N * 2^E, ties to even
DRound(s, N, E) == IF BigBits(N) = 0 THEN DZero(s) ELSE DRoundBits(s, N, BigBits(N), E)

DMul(x, y) ==
  IF DIsZero(x) \/ DIsZero(y) THEN DZero(SignXor(x, y))
  ELSE DRound(SignXor(x, y), BigMul(x.m, y.m), x.e + y.e)

DAddMag(s1, A, s2, B, E) ==
  IF s1 = s2 THEN DRound(s1, BigAdd(A, B), E)
  ELSE IF BigLess(B, A) THEN DRound(s1, BigSub(A, B), E)
  ELSE IF BigLess(A, B) THEN DRound(s2, BigSub(B, A), E)
  ELSE DZero(0)

\* hi + lo with hi.e >= lo.e; a lo more than 56 bits down is sticky
DAddAligned(hi, lo) ==
  IF hi.e - lo.e > 56
  THEN DAddMag(hi.s, BigShl(hi.m, 56, 8), lo.s, << 1 >>, hi.e - 56)
  ELSE DAddMag(hi.s, BigShl(hi.m, hi.e - lo.e, 8), lo.s, lo.m, lo.e)

DAdd(x, y) ==
  IF DIsZero(x) /\ DIsZero(y) THEN DZero(IF x.s = 1 /\ y.s = 1 THEN 1 ELSE 0)
  ELSE IF DIsZero(x) THEN y
  ELSE IF DIsZero(y) THEN x
  ELSE IF x.e >= y.e THEN DAddAligned(x, y) ELSE DAddAligned(y, x)

DSub(x, y) == DAdd(x, D(1 - y.s, y.m, y.e))

\* (double) x for a finite float x
DFromFloat(x) ==
  IF x.m = 0 THEN DZero(x.s)
  ELSE D(x.s, << 0, 0, (2 * NormM(x)) % Pow2(LimbBits), (2 * NormM(x)) \div Pow2(LimbBits) >>,
         NormE(x) - 29)

\* (double) k for an int |k| < 2^28
DFromInt(k) ==
  DRound(IF k < 0 THEN 1 ELSE 0, << Abs(k) % Pow2(LimbBits), Abs(k) \div Pow2(LimbBits) >>, 0)

\* (float) y: the top 29 bits, a guard bit, the rest sticky
DToFloatBits(y, G) ==
  Round(y.s,
        2 * (Limb(G, 1) + Limb(G, 2) * Pow2(LimbBits) + Limb(G, 3) * Pow2(2 * LimbBits))
        + (IF BigLowZero(y.m, 24) THEN 0 ELSE 1),
        y.e + 23)

DToFloat(y) == IF DIsZero(y) THEN SignedZero(y.s) ELSE DToFloatBits(y, BigShr(y.m, 24, 3))

\* twice the integer part of |z| plus the bit below it, and whether lower
\* bits are set: the integer nearest to z, ties to even
DNearestBits(s, g, st) ==
  (1 - 2 * s) * (IF g % 2 = 1 /\ (st \/ (g \div 2) % 2 = 1) THEN g \div 2 + 1 ELSE g \div 2)

\* the integer z + 0x1.8p52 - 0x1.8p52, for |z| < 2^13
DNearestInt(z) ==
  IF DIsZero(z) THEN 0
  ELSE DNearestBits(z.s, BigShr(z.m, -z.e - 1, 1)[1], ~BigLowZero(z.m, -z.e - 1))

\* 2^(j/32), j = 0 .. 31, rounded to double: the significands
exp2Tab == <<
  <<0, 0, 0, 1024>>,
  <<1396, 3158, 6925, 1046>>,
  <<2319, 13286, 5510, 1069>>,
  <<6993, 73, 12317, 1092>>,
  <<4475, 12789, 11139, 1116>>,
  <<14762, 1442, 2163, 1141>>,
  <<8760, 14805, 1958, 1166>>,
  <<7905, 5247, 10719, 1191>>,
  <<14101, 10438, 12256, 1217>>,
  <<10699, 7402, 6771, 1244>>,
  <<13346, 12360, 10852, 1271>>,
  <<2349, 390, 8326, 1299>>,
  <<10791, 5336, 15789, 1327>>,
  <<3970, 6773, 693, 1357>>,
  <<5161, 13601, 12413, 1386>>,
  <<5509, 233, 2027, 1417>>,
  <<15309, 6652, 2534, 1448>>,
  <<8052, 9137, 14174, 1479>>,
  <<391, 4012, 4423, 1512>>,
  <<3603, 9523, 6297, 1545>>,
  <<8411, 2218, 3668, 1579>>,
  <<1509, 823, 13179, 1613>>,
  <<12432, 2703, 2328, 1649>>,
  <<9565, 2296, 4155, 1685>>,
  <<5037, 9579, 2553, 1722>>,
  <<7751, 3053, 14191, 1759>>,
  <<4764, 13845, 6589, 1798>>,
  <<4201, 13246, 12813, 1837>>,
  <<9351, 13294, 397, 1878>>,
  <<7007, 3566, 2419, 1919>>,
  <<4314, 2706, 2810, 1961>>,
  <<1344, 11705, 1893, 2004>> >>

\* the polynomial's coefficients and 32 / ln 2
expC0 == D(0, <<9108, 11844, 12164, 1818>>, -72)
expC1 == D(0, <<1267, 1003, 15589, 1967>>, -65)
expC2 == D(0, <<4822, 15409, 9263, 1419>>, -58)
InvLn2N == D(0, <<766, 5294, 5238, 1477>>, -47)

\* 2^(ki/32) = 2^((ki % 32)/32) * 2^(ki \div 32)
ExpTable(ki) == D(0, exp2Tab[(ki % 32) + 1], ki \div 32 - 52)

\* z = C[0]*r + C[1]; r2 = r*r; y = C[2]*r + 1; y = z*r2 + y; y = y*s
ExpPoly(r, s) ==
  DMul(DAdd(DMul(DAdd(DMul(expC0, r), expC1), DMul(r, r)), DAdd(DMul(expC2, r), DOne)), s)

\* x * 32/ln2 = ki + r
ExpReduce(z, ki) == DToFloat(ExpPoly(DSub(z, DFromInt(ki)), ExpTable(ki)))

ExpScaled(z) == ExpReduce(z, DNearestInt(z))

\* expf(x)
Expf(x) ==
  IF IsNaN(x) THEN NaN
  ELSE IF IsInf(x) THEN (IF x.s = 0 THEN PosInf ELSE Zero)
  ELSE IF FGt(x, F(0, 11629079, -17)) THEN PosInf
  ELSE IF FLt(x, F(1, 13627828, -17)) THEN Zero
  ELSE ExpScaled(DMul(InvLn2N, DFromFloat(x)))

\* b2Assert with the fault of being compiled out: it lets everything through
b2AssertCompiledOut(cond) == TRUE

\* b2Assert(cond), lines 53 and 288: the program goes on only if cond holds
b2Assert(cond) == cond

(***************************************************************************)
(* The solvers, as functions of the arrays they read and write.  Arrays    *)
(* are functions on 0 .. n-1, indexed as in the code.  Each returns the    *)
(* arrays it writes and dz: whether a division it executed had a zero      *)
(* divisor.                                                                *)
(***************************************************************************)
DivByZero(y) == FEq(y, Zero)

\* one pass of a wrap loop: angle moved by 2*pi
WrapDownStep(angle) == FSub(angle, FMul(FInt(2), b2_pi))

WrapUpStep(angle) == FAdd(angle, FMul(Two, b2_pi))

\* the loop conditions: C > b2_pi and C < -b2_pi, with C = angle - rest
WrapDownCond(angle, rest) == FGt(FSub(angle, rest), b2_pi)

WrapUpCond(angle, rest) == FLt(FSub(angle, rest), FNeg(b2_pi))

RECURSIVE WrapDownTimes(_, _, _)
\* the first loop, stopped after 2^n passes
WrapDownTimes(angle, rest, n) ==
  IF ~WrapDownCond(angle, rest) THEN angle
  ELSE IF n = 0 THEN WrapDownStep(angle)
  ELSE WrapDownTimes(WrapDownTimes(angle, rest, n - 1), rest, n - 1)

RECURSIVE WrapDownFrom(_, _, _)
WrapDownFrom(angle, rest, n) ==
  IF ~WrapDownCond(angle, rest) THEN angle
  ELSE WrapDownFrom(WrapDownTimes(angle, rest, n), rest, n + 1)

\* while (C > b2_pi) { angle -= 2 * b2_pi; C = angle - rest; }
\* The passes are taken one after another in runs of 1, 2, 4, ... passes, which
\* keeps the recursion shallow; a loop that never exits has no value.
WrapDown(angle, rest) == WrapDownFrom(angle, rest, 0)

RECURSIVE WrapUpTimes(_, _, _)
\* the second loop, stopped after 2^n passes
WrapUpTimes(angle, rest, n) ==
  IF ~WrapUpCond(angle, rest) THEN angle
  ELSE IF n = 0 THEN WrapUpStep(angle)
  ELSE WrapUpTimes(WrapUpTimes(angle, rest, n - 1), rest, n - 1)

RECURSIVE WrapUpFrom(_, _, _)
WrapUpFrom(angle, rest, n) ==
  IF ~WrapUpCond(angle, rest) THEN angle
  ELSE WrapUpFrom(WrapUpTimes(angle, rest, n), rest, n + 1)

\* while (C < -b2_pi) { angle += 2.0f * b2_pi; C = angle - rest; }
WrapUp(angle, rest) == WrapUpFrom(angle, rest, 0)

\* C = angle - rest after both wrap loops
WrapAngle(angle, rest) == FSub(WrapUp(WrapDown(angle, rest), rest), rest)

\* the part the three bend routines share: edge vectors, skip test on the
\* edge lengths, angle, Jacobians and the effective inverse mass W
BendMass(angle, J1, J2, J3, m1, m2, m3, dz) ==
  [skip |-> FALSE, dz |-> dz, angle |-> angle,
   J1 |-> J1, J2 |-> J2, J3 |-> J3,
   W |-> FAdd(FAdd(FMul(m1, b2Dot(J1, J1)), FMul(m2, b2Dot(J2, J2))),
              FMul(m3, b2Dot(J3, J3)))]

BendJacobians(angle, Jd1, Jd2, m1, m2, m3, dz) ==
  BendMass(angle, VNeg(Jd1), VSub(Jd1, Jd2), Jd2, m1, m2, m3, dz)

BendLengths(d1, d2, L1sqr, L2sqr, m1, m2, m3) ==
  IF FEq(FMul(L1sqr, L2sqr), Zero)
  THEN [skip |-> TRUE, dz |-> FALSE]
  ELSE BendJacobians(b2Atan2(b2Cross(d1, d2), b2Dot(d1, d2)),
                     VScale(FDiv(FNeg(One), L1sqr), Skew(d1)),
                     VScale(FDiv(One, L2sqr), Skew(d2)),
                     m1, m2, m3, DivByZero(L1sqr) \/ DivByZero(L2sqr))

BendEdges(d1, d2, m1, m2, m3) ==
  BendLengths(d1, d2, LengthSquared(d1), LengthSquared(d2), m1, m2, m3)

BendTriple(p1, p2, p3, m1, m2, m3) ==
  BendEdges(VSub(p2, p1), VSub(p3, p2), m1, m2, m3)

\* the constraint's velocity: Cdot = J1.v1 + J2.v2 + J3.v3
BendCdot(g, v1, v2, v3) ==
  FAdd(FAdd(b2Dot(g.J1, v1), b2Dot(g.J2, v2)), b2Dot(g.J3, v3))

\* omega = 2 * pi * hz
BendOmega(tuning) == FMul(FMul(Two, b2_pi), tuning.bendHertz)

\* spring = meff * omega * omega
BendSpring(meff, omega) == FMul(FMul(meff, omega), omega)

\* damper = 2 * meff * bendDamping * omega
BendDamper(meff, omega, tuning) ==
  FMul(FMul(FMul(Two, meff), tuning.bendDamping), omega)

\* SolveStretch, constraint i alone: both ends moved along the unit edge n.v
StretchMove(p1, p2, n, s1, s2, L0, k2, dz) ==
  [p1 |-> VSub(p1, VScale(FMul(FMul(k2, s1), FSub(L0, n.len)), n.v)),
   p2 |-> VAdd(p2, VScale(FMul(FMul(k2, s2), FSub(L0, n.len)), n.v)),
   dz |-> dz]

\* StretchShares with the fault of unweighted shares: each end takes half
StretchSharesEqual(p1, p2, n, im1, im2, sum, L0, k2) ==
  IF FEq(sum, Zero)
  THEN [p1 |-> p1, p2 |-> p2, dz |-> FALSE]
  ELSE StretchMove(p1, p2, n, FDyadic(1, 1), FDyadic(1, 1), L0, k2, DivByZero(sum))

StretchShares(p1, p2, n, im1, im2, sum, L0, k2) ==
  IF FEq(sum, Zero)
  THEN [p1 |-> p1, p2 |-> p2, dz |-> FALSE]
  ELSE StretchMove(p1, p2, n, FDiv(im1, sum), FDiv(im2, sum), L0, k2,
                   DivByZero(sum))

StretchProject(p1, p2, im1, im2, L0, k2) ==
  StretchShares(p1, p2, Normalize(VSub(p2, p1)), im1, im2, FAdd(im1, im2), L0, k2)

RECURSIVE SolveStretchFrom(_, _, _, _, _, _, _)
SolveStretchPut(i, n, ps, ims, Ls, k2, dz, r) ==
  SolveStretchFrom(i + 1, n, [ps EXCEPT ![i] = r.p1, ![i + 1] = r.p2],
                   ims, Ls, k2, dz \/ r.dz)

SolveStretchFrom(i, n, ps, ims, Ls, k2, dz) ==
  IF i >= n THEN [ps |-> ps, dz |-> dz]
  ELSE SolveStretchPut(i, n, ps, ims, Ls, k2, dz,
         StretchProject(ps[i], ps[i + 1], ims[i], ims[i + 1], Ls[i], k2))

SolveStretch(ps, ims, Ls, tuning, stretchCount) ==
  SolveStretchFrom(0, stretchCount, ps, ims, Ls, tuning.stretchStiffness, FALSE)

\* the three particles moved along their Jacobians by impulse
BendMove(p1, p2, p3, m1, m2, m3, g, impulse) ==
  [p1 |-> VAdd(p1, VScale(FMul(m1, impulse), g.J1)),
   p2 |-> VAdd(p2, VScale(FMul(m2, impulse), g.J2)),
   p3 |-> VAdd(p3, VScale(FMul(m3, impulse), g.J3))]

\* SolveBend_PBD_Angle, constraint i alone
BendPBDApply(p1, p2, p3, m1, m2, m3, rest, k3, g) ==
  IF g.skip THEN [p |-> [p1 |-> p1, p2 |-> p2, p3 |-> p3], dz |-> FALSE]
  ELSE IF FEq(g.W, Zero) THEN [p |-> [p1 |-> p1, p2 |-> p2, p3 |-> p3], dz |-> g.dz]
  ELSE [p |-> BendMove(p1, p2, p3, m1, m2, m3, g,
                       FMul(FMul(FNeg(k3), FDiv(One, g.W)), WrapAngle(g.angle, rest))),
        dz |-> g.dz \/ DivByZero(g.W)]

BendPBD(p1, p2, p3, m1, m2, m3, rest, k3) ==
  BendPBDApply(p1, p2, p3, m1, m2, m3, rest, k3, BendTriple(p1, p2, p3, m1, m2, m3))

RECURSIVE SolveBendPBDFrom(_, _, _, _, _, _, _)
SolveBendPBDPut(i, n, ps, ims, as, k3, dz, r) ==
  SolveBendPBDFrom(i + 1, n,
                   [ps EXCEPT ![i] = r.p.p1, ![i + 1] = r.p.p2, ![i + 2] = r.p.p3],
                   ims, as, k3, dz \/ r.dz)

SolveBendPBDFrom(i, n, ps, ims, as, k3, dz) ==
  IF i >= n THEN [ps |-> ps, dz |-> dz]
  ELSE SolveBendPBDPut(i, n, ps, ims, as, k3, dz,
         BendPBD(ps[i], ps[i + 1], ps[i + 2], ims[i], ims[i + 1], ims[i + 2],
                 as[i], k3))

SolveBend_PBD_Angle(ps, ims, as, tuning, bendCount) ==
  SolveBendPBDFrom(0, bendCount, ps, ims, as, tuning.bendStiffness, FALSE)

\* SolveBend_XPBD_Angle, constraint i alone
BendXPBDMove(p1, p2, p3, m1, m2, m3, g, lambda0, impulse, dz) ==
  [p |-> BendMove(p1, p2, p3, m1, m2, m3, g, impulse),
   lambda |-> FAdd(lambda0, impulse),
   dz |-> dz]

\* impulse = -B / Ws
BendXPBDImpulse(p1, p2, p3, m1, m2, m3, g, lambda0, B, Ws, dz) ==
  BendXPBDMove(p1, p2, p3, m1, m2, m3, g, lambda0, FDiv(FNeg(B), Ws),
               dz \/ DivByZero(Ws))

\* B = C + alpha * lambda + alpha * beta * Cdot,
\* Ws = (1 + alpha * beta / dt) * W + alpha
BendXPBDSolve(p1, p2, p3, m1, m2, m3, g, lambda0, alpha, beta, C, Cdot, dt, dz) ==
  BendXPBDImpulse(p1, p2, p3, m1, m2, m3, g, lambda0,
    FAdd(FAdd(C, FMul(alpha, lambda0)), FMul(FMul(alpha, beta), Cdot)),
    FAdd(FMul(FAdd(One, FDiv(FMul(alpha, beta), dt)), g.W), alpha),
    dz \/ DivByZero(dt))

\* alpha = 1 / (spring * dt * dt), beta = dt * dt * damper
BendXPBDCompliance(p1, p2, p3, v1, v2, v3, m1, m2, m3, g, rest, lambda0, sdd, damper, dt) ==
  BendXPBDSolve(p1, p2, p3, m1, m2, m3, g, lambda0,
                FDiv(One, sdd), FMul(FMul(dt, dt), damper),
                WrapAngle(g.angle, rest), BendCdot(g, v1, v2, v3), dt,
                g.dz \/ DivByZero(g.W) \/ DivByZero(sdd))

BendXPBDSpring(p1, p2, p3, v1, v2, v3, m1, m2, m3, g, rest, lambda0, meff, omega, tuning, dt) ==
  BendXPBDCompliance(p1, p2, p3, v1, v2, v3, m1, m2, m3, g, rest, lambda0,
                     FMul(FMul(BendSpring(meff, omega), dt), dt),
                     BendDamper(meff, omega, tuning), dt)

BendXPBDApply(p1, p2, p3, v1, v2, v3, m1, m2, m3, rest, lambda0, tuning, dt, g) ==
  IF g.skip
  THEN [p |-> [p1 |-> p1, p2 |-> p2, p3 |-> p3], lambda |-> lambda0, dz |-> FALSE]
  ELSE IF FEq(g.W, Zero)
  THEN [p |-> [p1 |-> p1, p2 |-> p2, p3 |-> p3], lambda |-> lambda0, dz |-> g.dz]
  ELSE BendXPBDSpring(p1, p2, p3, v1, v2, v3, m1, m2, m3, g, rest, lambda0,
                      FDiv(One, g.W), BendOmega(tuning), tuning, dt)

BendXPBD(p1, p2, p3, v1, v2, v3, m1, m2, m3, rest, lambda0, tuning, dt) ==
  BendXPBDApply(p1, p2, p3, v1, v2, v3, m1, m2, m3, rest, lambda0, tuning, dt,
                BendTriple(p1, p2, p3, m1, m2, m3))

RECURSIVE SolveBendXPBDFrom(_, _, _, _, _, _, _, _, _, _)
SolveBendXPBDPut(i, n, ps, vs, ims, as, lambdas, tuning, dt, dz, r) ==
  SolveBendXPBDFrom(i + 1, n,
                    [ps EXCEPT ![i] = r.p.p1, ![i + 1] = r.p.p2, ![i + 2] = r.p.p3],
                    vs, ims, as, [lambdas EXCEPT ![i] = r.lambda],
                    tuning, dt, dz \/ r.dz)

SolveBendXPBDFrom(i, n, ps, vs, ims, as, lambdas, tuning, dt, dz) ==
  IF i >= n THEN [ok |-> TRUE, ps |-> ps, lambdas |-> lambdas, dz |-> dz]
  ELSE SolveBendXPBDPut(i, n, ps, vs, ims, as, lambdas, tuning, dt, dz,
         BendXPBD(ps[i], ps[i + 1], ps[i + 2], vs[i], vs[i + 1], vs[i + 2],
                  ims[i], ims[i + 1], ims[i + 2], as[i], lambdas[i], tuning, dt))

\* line 288 is b2Assert(dt > 0.0f): ok tells whether the program went on, and
\* if it did not the arrays are as they were
SolveBend_XPBD_Angle(ps, vs, ims, as, lambdas, tuning, dt, bendCount) ==
  IF b2Assert(FGt(dt, Zero))
  THEN SolveBendXPBDFrom(0, bendCount, ps, vs, ims, as, lambdas, tuning, dt, FALSE)
  ELSE [ok |-> FALSE, ps |-> ps, lambdas |-> lambdas, dz |-> FALSE]

\* ApplyBendForces, constraint i alone
\* impulse = -dt * (spring * C + damper * Cdot)
BendForceImpulse(v1, v2, v3, m1, m2, m3, g, spring, damper, C, Cdot, dt) ==
  [p |-> BendMove(v1, v2, v3, m1, m2, m3, g,
                  FMul(FNeg(dt), FAdd(FMul(spring, C), FMul(damper, Cdot)))),
   dz |-> g.dz \/ DivByZero(g.W)]

BendForceSpring(v1, v2, v3, m1, m2, m3, g, rest, meff, omega, tuning, dt) ==
  BendForceImpulse(v1, v2, v3, m1, m2, m3, g,
                   BendSpring(meff, omega), BendDamper(meff, omega, tuning),
                   WrapAngle(g.angle, rest), BendCdot(g, v1, v2, v3), dt)

BendForceApply(v1, v2, v3, m1, m2, m3, rest, tuning, dt, g) ==
  IF g.skip THEN [p |-> [p1 |-> v1, p2 |-> v2, p3 |-> v3], dz |-> FALSE]
  ELSE IF FEq(g.W, Zero) THEN [p |-> [p1 |-> v1, p2 |-> v2, p3 |-> v3], dz |-> g.dz]
  ELSE BendForceSpring(v1, v2, v3, m1, m2, m3, g, rest,
                       FDiv(One, g.W), BendOmega(tuning), tuning, dt)

BendForce(p1, p2, p3, v1, v2, v3, m1, m2, m3, rest, tuning, dt) ==
  BendForceApply(v1, v2, v3, m1, m2, m3, rest, tuning, dt,
                 BendTriple(p1, p2, p3, m1, m2, m3))

RECURSIVE ApplyBendForcesFrom(_, _, _, _, _, _, _, _, _)
ApplyBendForcesPut(i, n, ps, vs, ims, as, tuning, dt, dz, r) ==
  ApplyBendForcesFrom(i + 1, n, ps,
                      [vs EXCEPT ![i] = r.p.p1, ![i + 1] = r.p.p2, ![i + 2] = r.p.p3],
                      ims, as, tuning, dt, dz \/ r.dz)

ApplyBendForcesFrom(i, n, ps, vs, ims, as, tuning, dt, dz) ==
  IF i >= n THEN [vs |-> vs, dz |-> dz]
  ELSE ApplyBendForcesPut(i, n, ps, vs, ims, as, tuning, dt, dz,
         BendForce(ps[i], ps[i + 1], ps[i + 2], vs[i], vs[i + 1], vs[i + 2],
                   ims[i], ims[i + 1], ims[i + 2], as[i], tuning, dt))

ApplyBendForces(ps, vs, ims, as, tuning, dt, count) ==
  ApplyBendForcesFrom(0, count - 2, ps, vs, ims, as, tuning, dt, FALSE)

(***************************************************************************)
(* Initialize and Step, as functions                                       *)
(***************************************************************************)
Indices(n) == 0 .. (n - 1)

\* lines 68-76: mass to inverse mass
InverseMass(m) == IF FGt(m, Zero) THEN FDiv(One, m) ELSE Zero

\* lines 85-90
RestLengths(ps, stretchCount) ==
  [i \in Indices(stretchCount) |-> b2Distance(ps[i], ps[i + 1])]

\* lines 92-104
EdgeAngle(d1, d2) == b2Atan2(b2Cross(d1, d2), b2Dot(d1, d2))

RestAngles(ps, bendCount) ==
  [i \in Indices(bendCount) |->
     EdgeAngle(VSub(ps[i + 1], ps[i]), VSub(ps[i + 2], ps[i + 1]))]

\* SetAngleArray with the fault of a loop that stops one entry early
SetAngleAllButLast(as, angle, bendCount) ==
  [i \in DOMAIN as |-> IF i < bendCount - 1 THEN angle ELSE as[i]]

\* lines 209-212
SetAngleArray(as, angle, bendCount) ==
  [i \in DOMAIN as |-> IF i < bendCount THEN angle ELSE as[i]]

\* StepReturnsAtOnce with the fault of a missing dt == 0 test
StepNeverReturnsAtOnce(dt) == FALSE

\* lines 119-122
StepReturnsAtOnce(dt) == FEq(dt, Zero)

\* lines 127-138
PredictVelocity(v, im, bind, p0, gravity, dt, inv_dt, d, position) ==
  IF FGt(im, Zero)
  THEN VScale(d, VAdd(v, VScale(dt, gravity)))
  ELSE VScale(inv_dt, VSub(VAdd(bind, position), p0))

\* lines 145-148
IntegratePosition(p, v, dt) == VAdd(p, VScale(dt, v))

\* ResetLambdaArray with the fault of a missing reset loop
ResetLambdaNone(lambdas, bendCount) == lambdas

\* lines 150-153
ResetLambdaArray(lambdas, bendCount) ==
  [i \in DOMAIN lambdas |-> IF i < bendCount THEN Zero ELSE lambdas[i]]

\* line 171
ReconstructVelocity(p, p0, inv_dt) == VScale(inv_dt, VSub(p, p0))

\* the bend pass, if any, that opens iteration i of the loop of lines 155-167,
\* else the phase after the loop
LoopEntry(tuning, i, iterations) ==
  IF i < iterations
  THEN (IF tuning.bendingModel = "b2_pbdAngleBendingModel" THEN "bendPBD"
        ELSE IF tuning.bendingModel = "b2_xpbdAngleBendingModel" THEN "bendXPBD"
        ELSE "stretch")
  ELSE "reconstruct"

\* NextPhase with the fault of the force pass placed after the integration
NextPhaseForceLate(cur, tuning, i, iterations) ==
  CASE cur = "predict" -> "integrate"
    [] cur = "integrate" ->
         (IF tuning.bendingModel = "b2_forceAngleBendingModel"
          THEN "force" ELSE "reset")
    [] cur = "force" -> "reset"
    [] cur = "reset" -> LoopEntry(tuning, 0, iterations)
    [] cur = "bendPBD" -> "stretch"
    [] cur = "bendXPBD" -> "stretch"
    [] cur = "stretch" -> LoopEntry(tuning, i + 1, iterations)
    [] cur = "reconstruct" -> "idle"

\* the phase of Step that follows phase cur (lines 124-174)
NextPhase(cur, tuning, i, iterations) ==
  CASE cur = "predict" ->
         (IF tuning.bendingModel = "b2_forceAngleBendingModel"
          THEN "force" ELSE "integrate")
    [] cur = "force" -> "integrate"
    [] cur = "integrate" -> "reset"
    [] cur = "reset" -> LoopEntry(tuning, 0, iterations)
    [] cur = "bendPBD" -> "stretch"
    [] cur = "bendXPBD" -> "stretch"
    [] cur = "stretch" -> LoopEntry(tuning, i + 1, iterations)
    [] cur = "reconstruct" -> "idle"

(***************************************************************************)
(* Inputs                                                                  *)
(***************************************************************************)
\* API calls made on a rope after Initialize
MaxCalls == 2

Arr(seq) == [i \in Indices(Len(seq)) |-> seq[i + 1]]

Pt(x, y) == V2(FInt(x), FInt(y))

Half == FDyadic(1, 1)

Tuning(damping, stretchStiffness, bendStiffness, bendHertz, bendDamping, model) ==
  [damping |-> damping, stretchStiffness |-> stretchStiffness,
   bendStiffness |-> bendStiffness, bendHertz |-> bendHertz,
   bendDamping |-> bendDamping, bendingModel |-> model]

TuningNone  == Tuning(Half, One, Half, One, Zero, "b2_noneBendingModel")
TuningForce == Tuning(Zero, One, Half, One, Half, "b2_forceAngleBendingModel")
TuningPBD   == Tuning(Zero, Half, Half, One, Zero, "b2_pbdAngleBendingModel")
TuningXPBD  == Tuning(Zero, One, Half, One, Half, "b2_xpbdAngleBendingModel")
TuningXPBD0 == Tuning(Zero, One, Half, Zero, Zero, "b2_xpbdAngleBendingModel")

Tunings == {TuningNone, TuningForce, TuningPBD, TuningXPBD, TuningXPBD0}

Straight3 == Arr(<<Pt(0, 0), Pt(1, 0), Pt(2, 0)>>)
Bent3     == Arr(<<Pt(0, 0), Pt(1, 0), Pt(1, 1)>>)
Folded3   == Arr(<<Pt(0, 0), Pt(0, 0), Pt(1, 0)>>)
Straight4 == Arr(<<Pt(0, 0), Pt(1, 0), Pt(2, 0), Pt(3, 0)>>)
Short2    == Arr(<<Pt(0, 0), Pt(1, 0)>>)

Masses(seq) == Arr([k \in 1 .. Len(seq) |-> FInt(seq[k])])

Def(vertices, masses, gravity, tuning) ==
  [count |-> Cardinality(DOMAIN vertices), vertices |-> vertices,
   masses |-> masses, gravity |-> gravity, tuning |-> tuning]

Defs ==
  {Def(v, m, Pt(0, -1), t) :
     v \in {Straight3, Bent3}, m \in {Masses(<<0, 1, 0>>), Masses(<<0, 1, 2>>)},
     t \in Tunings}
  \cup {Def(Straight3, Masses(<<0, 0, 0>>), Pt(0, -1), t) : t \in Tunings}
  \cup {Def(Straight3, Masses(<<1, 1, 1>>), Pt(0, 0), t) : t \in {TuningPBD, TuningXPBD}}
  \cup {Def(Folded3, Masses(<<0, 1, 1>>), Pt(0, -1), t) : t \in {TuningPBD, TuningXPBD}}
  \cup {Def(Straight4, Masses(<<0, 1, 1, 0>>), Pt(0, -1), t) : t \in {TuningForce, TuningXPBD}}
  \cup {Def(Short2, Masses(<<0, 1>>), Pt(0, -1), TuningNone)}

StepArgs ==
  {[dt |-> Half, iterations |-> 2, position |-> Pt(0, 0)],
   [dt |-> One,  iterations |-> 1, position |-> Pt(1, 0)],
   [dt |-> Half, iterations |-> 0, position |-> V2(Zero, Half)],
   [dt |-> Zero, iterations |-> 2, position |-> Pt(1, 0)],
   [dt |-> FNeg(Half), iterations |-> 1, position |-> Pt(0, 0)]}

SetTunings == {TuningPBD, TuningXPBD}

\* rest angles given to SetAngle: one inside (-pi, pi], one outside
Angles == {FDiv(b2_pi, Two), FInt(7)}

(***************************************************************************)
(* State                                                                   *)
(***************************************************************************)
VARIABLES
  life,              \* "constructed", "initialized", "aborted" (ended in an
                     \* assertion), "destroyed"
  ptrs,              \* what each of the eight array pointers holds
  freed,             \* the pointers the destructor passed to b2Free, in order
  m_count, m_stretchCount, m_bendCount,
  m_bindPositions, m_ps, m_p0s, m_vs, m_ims, m_Ls, m_as, m_bendingLambdas,
  m_gravity, m_tuning,
  pc,                \* the phase of Step about to run, "idle" outside Step
  frame,             \* Step's arguments and locals
  divZero,           \* a division with a zero divisor has been executed
  trace,             \* the phases the last Step call has run
  last,              \* the last API call and its arguments
  pre,               \* the arrays as they were when the last API call began
  calls,             \* API calls made after Initialize
  fn                 \* argument and result of the function under test

arrays == <<m_bindPositions, m_ps, m_p0s, m_vs, m_ims, m_Ls, m_as, m_bendingLambdas>>
counts == <<m_count, m_stretchCount, m_bendCount>>
object == <<life, ptrs, freed>>
rope == <<life, ptrs, freed, m_count, m_stretchCount, m_bendCount,
          m_bindPositions, m_ps, m_p0s, m_vs, m_ims, m_Ls, m_as,
          m_bendingLambdas, m_gravity, m_tuning, pc, frame, divZero, trace,
          last, pre, calls>>
vars == <<life, ptrs, freed, m_count, m_stretchCount, m_bendCount,
          m_bindPositions, m_ps, m_p0s, m_vs, m_ims, m_Ls, m_as,
          m_bendingLambdas, m_gravity, m_tuning, pc, frame, divZero, trace,
          last, pre, calls, fn>>

Snapshot ==
  [bind |-> m_bindPositions, ps |-> m_ps, p0s |-> m_p0s, vs |-> m_vs,
   ims |-> m_ims, Ls |-> m_Ls, as |-> m_as, lambdas |-> m_bendingLambdas]

EmptyArray == [i \in {} |-> Zero]

NoFrame == [dt |-> Zero, iterations |-> 0, position |-> VZero,
            inv_dt |-> Zero, d |-> Zero, i |-> 0]

PtrNames == <<"m_bindPositions", "m_ps", "m_p0s", "m_vs", "m_ims", "m_Ls",
              "m_as", "m_bendingLambdas">>

\* lines 26-37: the constructor sets seven pointers to null and leaves
\* m_bendingLambdas (and m_stretchCount, m_bendCount) as they were
Constructed ==
  /\ life = "constructed"
  /\ ptrs \in {[n \in {PtrNames[k] : k \in 1 .. 8} |->
                  IF n = "m_bendingLambdas" THEN u ELSE "null"] :
               u \in {"null", "wild"}}
  /\ freed = << >>
  /\ m_count = 0
  /\ m_stretchCount = "uninitialized"
  /\ m_bendCount = "uninitialized"
  /\ m_bindPositions = EmptyArray
  /\ m_ps = EmptyArray
  /\ m_p0s = EmptyArray
  /\ m_vs = EmptyArray
  /\ m_ims = EmptyArray
  /\ m_Ls = EmptyArray
  /\ m_as = EmptyArray
  /\ m_bendingLambdas = EmptyArray
  /\ m_gravity = VZero
  /\ m_tuning = "uninitialized"
  /\ pc = "idle"
  /\ frame = NoFrame
  /\ divZero = FALSE
  /\ trace = << >>
  /\ last = [op |-> "b2Rope"]
  /\ pre = [bind |-> EmptyArray, ps |-> EmptyArray, p0s |-> EmptyArray,
            vs |-> EmptyArray, ims |-> EmptyArray, Ls |-> EmptyArray,
            as |-> EmptyArray, lambdas |-> EmptyArray]
  /\ calls = 0

Init == Constructed /\ fn = [op |-> "none"]

(***************************************************************************)
(* Operations                                                              *)
(***************************************************************************)
\* lines 39-49
Destroy ==
  /\ pc = "idle"
  /\ life \in {"constructed", "initialized"}
  /\ life' = "destroyed"
  /\ freed' = [k \in 1 .. 8 |-> ptrs[PtrNames[k]]]
  /\ last' = [op |-> "~b2Rope"]
  /\ UNCHANGED <<ptrs, counts, arrays, m_gravity, m_tuning, pc, frame, divZero,
                 trace, pre, calls, fn>>

\* lines 54-109
InitializeBody(def) ==
  LET ps == [i \in Indices(def.count) |-> def.vertices[i]]
  IN  /\ life' = "initialized"
      /\ ptrs' = [n \in DOMAIN ptrs |-> "block"]
      /\ m_count' = def.count
      /\ m_bindPositions' = ps
      /\ m_ps' = ps
      /\ m_p0s' = ps
      /\ m_vs' = [i \in Indices(def.count) |-> VZero]
      /\ m_ims' = [i \in Indices(def.count) |-> InverseMass(def.masses[i])]
      /\ m_stretchCount' = def.count - 1
      /\ m_bendCount' = def.count - 2
      /\ m_Ls' = RestLengths(ps, def.count - 1)
      /\ m_as' = RestAngles(ps, def.count - 2)
      /\ m_bendingLambdas' = [i \in Indices(def.count - 2) |-> Zero]
      /\ m_gravity' = def.gravity
      /\ m_tuning' = def.tuning

\* lines 51-110
Initialize(def) ==
  /\ pc = "idle"
  /\ life = "constructed"
  /\ last' = [op |-> "Initialize", count |-> def.count]
  /\ pre' = Snapshot
  /\ IF b2Assert(def.count >= 3)
     THEN InitializeBody(def)
     ELSE /\ life' = "aborted"
          /\ UNCHANGED <<ptrs, counts, arrays, m_gravity, m_tuning>>
  /\ UNCHANGED <<freed, pc, frame, divZero, trace, calls, fn>>

\* lines 112-115
SetTuning(tuning) ==
  /\ pc = "idle"
  /\ life = "initialized"
  /\ calls < MaxCalls
  /\ calls' = calls + 1
  /\ last' = [op |-> "SetTuning"]
  /\ pre' = Snapshot
  /\ m_tuning' = tuning
  /\ UNCHANGED <<object, counts, arrays, m_gravity, pc, frame, divZero, trace, fn>>

\* lines 207-213
SetAngle(angle) ==
  /\ pc = "idle"
  /\ life = "initialized"
  /\ calls < MaxCalls
  /\ calls' = calls + 1
  /\ last' = [op |-> "SetAngle", angle |-> angle]
  /\ pre' = Snapshot
  /\ m_as' = SetAngleArray(m_as, angle, m_bendCount)
  /\ UNCHANGED <<object, counts, m_bindPositions, m_ps, m_p0s, m_vs, m_ims, m_Ls,
                 m_bendingLambdas, m_gravity, m_tuning, pc, frame, divZero,
                 trace, fn>>

\* lines 117-125: the call, its early return, inv_dt and d
Step(dt, iterations, position) ==
  /\ pc = "idle"
  /\ life = "initialized"
  /\ calls < MaxCalls
  /\ calls' = calls + 1
  /\ last' = [op |-> "Step", dt |-> dt, iterations |-> iterations,
              position |-> position]
  /\ pre' = Snapshot
  /\ trace' = << >>
  /\ IF StepReturnsAtOnce(dt)
     THEN UNCHANGED <<pc, frame, divZero>>
     ELSE /\ pc' = "predict"
          /\ frame' = [dt |-> dt, iterations |-> iterations, position |-> position,
                       inv_dt |-> FDiv(One, dt),
                       d |-> Expf(FMul(FNeg(dt), m_tuning.damping)), i |-> 0]
          /\ divZero' = (divZero \/ DivByZero(dt))
  /\ UNCHANGED <<object, counts, arrays, m_gravity, m_tuning, fn>>

\* what every phase of Step does besides its own writes
Advance(phase, i) ==
  /\ pc = phase
  /\ pc' = NextPhase(phase, m_tuning, frame.i, frame.iterations)
  /\ trace' = Append(trace, phase)
  /\ frame' = [frame EXCEPT !.i = i]
  /\ UNCHANGED <<object, counts, m_gravity, m_tuning, last, pre, calls, fn>>

\* lines 127-138
PredictVelocities ==
  /\ Advance("predict", frame.i)
  /\ m_vs' = [i \in Indices(m_count) |->
                PredictVelocity(m_vs[i], m_ims[i], m_bindPositions[i], m_p0s[i],
                                m_gravity, frame.dt, frame.inv_dt, frame.d,
                                frame.position)]
  /\ UNCHANGED <<m_bindPositions, m_ps, m_p0s, m_ims, m_Ls, m_as,
                 m_bendingLambdas, divZero>>

\* lines 140-143
BendForcesWrite(r) ==
  /\ m_vs' = r.vs
  /\ divZero' = (divZero \/ r.dz)
  /\ UNCHANGED <<m_bindPositions, m_ps, m_p0s, m_ims, m_Ls, m_as, m_bendingLambdas>>

BendForcesPhase ==
  /\ Advance("force", frame.i)
  /\ BendForcesWrite(ApplyBendForces(m_ps, m_vs, m_ims, m_as, m_tuning, frame.dt,
                                     m_count))

\* lines 145-148
IntegratePositions ==
  /\ Advance("integrate", frame.i)
  /\ m_ps' = [i \in Indices(m_count) |->
                IntegratePosition(m_ps[i], m_vs[i], frame.dt)]
  /\ UNCHANGED <<m_bindPositions, m_p0s, m_vs, m_ims, m_Ls, m_as,
                 m_bendingLambdas, divZero>>

\* lines 150-153
ResetLambdas ==
  /\ Advance("reset", frame.i)
  /\ m_bendingLambdas' = ResetLambdaArray(m_bendingLambdas, m_bendCount)
  /\ UNCHANGED <<m_bindPositions, m_ps, m_p0s, m_vs, m_ims, m_Ls, m_as, divZero>>

\* lines 157-160
PositionsWrite(r) ==
  /\ m_ps' = r.ps
  /\ divZero' = (divZero \/ r.dz)
  /\ UNCHANGED <<m_bindPositions, m_p0s, m_vs, m_ims, m_Ls, m_as, m_bendingLambdas>>

BendPBDPhase ==
  /\ Advance("bendPBD", frame.i)
  /\ PositionsWrite(SolveBend_PBD_Angle(m_ps, m_ims, m_as, m_tuning, m_bendCount))

\* the program ends in an assertion of the phase about to run
AbortInPhase(phase) ==
  /\ pc = phase
  /\ life' = "aborted"
  /\ UNCHANGED <<ptrs, freed, counts, arrays, m_gravity, m_tuning, pc, frame,
                 divZero, trace, last, pre, calls, fn>>

\* lines 161-164, and line 288 inside the pass
BendXPBDWrite(r) ==
  IF r.ok
  THEN /\ Advance("bendXPBD", frame.i)
       /\ m_ps' = r.ps
       /\ m_bendingLambdas' = r.lambdas
       /\ divZero' = (divZero \/ r.dz)
       /\ UNCHANGED <<m_bindPositions, m_p0s, m_vs, m_ims, m_Ls, m_as>>
  ELSE AbortInPhase("bendXPBD")

BendXPBDPhase ==
  /\ pc = "bendXPBD" /\ life = "initialized"
  /\ BendXPBDWrite(SolveBend_XPBD_Angle(m_ps, m_vs, m_ims, m_as, m_bendingLambdas,
                                        m_tuning, frame.dt, m_bendCount))

\* line 166, and the ++i that ends the iteration
StretchPhase ==
  /\ Advance("stretch", frame.i + 1)
  /\ PositionsWrite(SolveStretch(m_ps, m_ims, m_Ls, m_tuning, m_stretchCount))

\* lines 169-173
ReconstructVelocities ==
  /\ Advance("reconstruct", frame.i)
  /\ m_vs' = [i \in Indices(m_count) |->
                ReconstructVelocity(m_ps[i], m_p0s[i], frame.inv_dt)]
  /\ m_p0s' = m_ps
  /\ UNCHANGED <<m_bindPositions, m_ps, m_ims, m_Ls, m_as, m_bendingLambdas,
                 divZero>>

Next ==
  \/ \E def \in Defs : Initialize(def)
  \/ \E t \in SetTunings : SetTuning(t)
  \/ \E a \in Angles : SetAngle(a)
  \/ \E s \in StepArgs : Step(s.dt, s.iterations, s.position)
  \/ PredictVelocities
  \/ BendForcesPhase
  \/ IntegratePositions
  \/ ResetLambdas
  \/ BendPBDPhase
  \/ BendXPBDPhase
  \/ StretchPhase
  \/ ReconstructVelocities
  \/ Destroy

Spec == Init /\ [][Next]_vars

(***************************************************************************)
(* Properties of the rope object                                           *)
(***************************************************************************)
AfterStep == pc = "idle" /\ life = "initialized" /\ last.op = "Step"

AllZero(lambdas) == \A i \in DOMAIN lambdas : lambdas[i] = Zero

\* C1: Step with dt == 0 is a no-op: it returns at once, and positions,
\* previous positions, velocities, multipliers, rest lengths, rest angles,
\* inverse masses and bind positions are what they were before the call, for
\* every iteration count, position offset and bending model.
C1_StepZeroIsNoOp ==
  (last.op = "Step" /\ FEq(last.dt, Zero)) =>
     /\ pc = "idle"
     /\ Snapshot = pre
     /\ trace = << >>

\* a Step with dt == 0, a non-zero offset and two iterations has returned on a
\* rope that is moving
C1_Witness ==
  /\ last.op = "Step" /\ FEq(last.dt, Zero)
  /\ life = "initialized"
  /\ last.position # VZero /\ last.iterations = 2
  /\ \E i \in DOMAIN m_vs : m_vs[i] # VZero

\* C2: every kinematic particle (inverse mass 0) ends each Step with dt # 0
\* exactly at bind[i] + position of that Step, for every bending model,
\* iteration count and gravity.
C2_KinematicAtAnchor ==
  (AfterStep /\ ~FEq(last.dt, Zero)) =>
     \A i \in DOMAIN m_ps :
        FEq(m_ims[i], Zero) => VEq(m_ps[i], VAdd(m_bindPositions[i], last.position))

\* C3: Initialize with fewer than 3 vertices fails at its assertion and builds
\* nothing; every initialized rope has N >= 3 particles, N - 1 stretch
\* constraints and N - 2 >= 1 bend constraints.
C3_InitializeNeedsThree ==
  /\ (last.op = "Initialize" /\ last.count < 3) =>
        /\ life = "aborted"
        /\ m_count = 0
        /\ Snapshot = pre
        /\ \A n \in DOMAIN ptrs : ptrs[n] # "block"
  /\ life = "initialized" =>
        /\ m_count >= 3
        /\ m_stretchCount = m_count - 1
        /\ m_bendCount = m_count - 2
        /\ m_bendCount >= 1
        /\ DOMAIN m_ps = Indices(m_count)
        /\ DOMAIN m_Ls = Indices(m_count - 1)
        /\ DOMAIN m_as = Indices(m_count - 2)

\* Initialize has been called with 2 vertices
C3_Witness == last.op = "Initialize" /\ last.count = 2 /\ life = "aborted"

\* C4: Step and SetTuning change no rest length, rest angle, inverse mass or
\* bind position; SetAngle sets each of the N - 2 rest angles to its argument
\* and changes nothing else.
C4_RestStateFrame ==
  /\ (last.op \in {"Step", "SetTuning"}) =>
        /\ m_Ls = pre.Ls
        /\ m_as = pre.as
        /\ m_ims = pre.ims
        /\ m_bindPositions = pre.bind
  /\ (life = "initialized" /\ last.op = "SetAngle") =>
        /\ DOMAIN m_as = Indices(m_count - 2)
        /\ \A i \in Indices(m_count - 2) : m_as[i] = last.angle
        /\ [Snapshot EXCEPT !.as = pre.as] = pre

\* SetAngle has changed both rest angles of a rope of 4 particles that has
\* been stepped
C4_Witness ==
  /\ life = "initialized" /\ last.op = "SetAngle"
  /\ m_count = 4
  /\ m_as[0] # pre.as[0] /\ m_as[1] # pre.as[1]
  /\ \E i \in DOMAIN m_vs : m_vs[i] # VZero

\* C5: in every Step with dt # 0 the multipliers are all 0 after the position
\* integration and before the first iteration, so the first XPBD pass reads 0;
\* between the passes of one Step only the XPBD bend solver writes them.
C5_LambdaState ==
  /\ (pc # "idle" /\ Len(trace) >= 1 /\ trace[Len(trace)] = "reset") =>
        /\ AllZero(m_bendingLambdas)
        /\ Len(trace) >= 2 /\ trace[Len(trace) - 1] = "integrate"
  /\ (pc \in {"bendPBD", "bendXPBD", "stretch", "reconstruct"}) =>
        \E k \in 1 .. Len(trace) : trace[k] = "reset"
  /\ (pc = "bendXPBD" /\ frame.i = 0) => AllZero(m_bendingLambdas)

C5_LambdaWrites ==
  (life = "initialized" /\ pc \notin {"reset", "bendXPBD"}) =>
     m_bendingLambdas' = m_bendingLambdas

C5_LambdaReset == []C5_LambdaState /\ [][C5_LambdaWrites]_vars

\* the second XPBD pass of a second Step is about to read the non-zero
\* multiplier the first pass of that Step wrote
C5_Witness ==
  /\ pc = "bendXPBD" /\ frame.i = 1 /\ calls = 2
  /\ \E i \in DOMAIN m_bendingLambdas :
        IsFinite(m_bendingLambdas[i]) /\ m_bendingLambdas[i] # Zero
  /\ \E i \in DOMAIN pre.lambdas : pre.lambdas[i] # Zero

\* C7: no division of Step or of a solver it calls has a zero divisor.
C7_NoDivisionByZero == ~divZero

\* the phases a Step with dt # 0 runs, in order
Iteration(tuning) ==
  IF tuning.bendingModel = "b2_pbdAngleBendingModel" THEN <<"bendPBD", "stretch">>
  ELSE IF tuning.bendingModel = "b2_xpbdAngleBendingModel"
       THEN <<"bendXPBD", "stretch">>
  ELSE <<"stretch">>

RECURSIVE Iterations(_, _)
Iterations(tuning, n) ==
  IF n <= 0 THEN << >> ELSE Iteration(tuning) \o Iterations(tuning, n - 1)

PhaseOrder(tuning, iterations) ==
  <<"predict">>
  \o (IF tuning.bendingModel = "b2_forceAngleBendingModel"
      THEN <<"force">> ELSE << >>)
  \o <<"integrate">> \o <<"reset">>
  \o Iterations(tuning, iterations)
  \o <<"reconstruct">>

\* C9: a Step with dt # 0 runs velocity prediction, the force bend pass once
\* iff the model is the force model, position integration, `iterations`
\* iterations (the model's bend pass, if any, then the stretch pass), velocity
\* reconstruction v = (p - p0) / dt and p0 = p; velocities are not written
\* between integration and reconstruction.  A Step leaves this order only by
\* ending in the assertion of the XPBD pass, which it does only if dt > 0
\* is false; the phases it has run by then are the first ones of the order.
C9_PhaseState ==
  /\ (last.op = "Step" /\ ~FEq(last.dt, Zero) /\ pc # "idle") =>
        /\ Len(trace) < Len(PhaseOrder(m_tuning, last.iterations))
        /\ trace = SubSeq(PhaseOrder(m_tuning, last.iterations), 1, Len(trace))
        /\ pc = PhaseOrder(m_tuning, last.iterations)[Len(trace) + 1]
  /\ (AfterStep /\ ~FEq(last.dt, Zero)) =>
        /\ trace = PhaseOrder(m_tuning, last.iterations)
        /\ \A i \in DOMAIN m_vs :
              m_vs[i] = VScale(FDiv(One, last.dt), VSub(m_ps[i], pre.p0s[i]))
  /\ (pc = "idle" /\ life = "initialized") => m_p0s = m_ps
  /\ (last.op = "Step" /\ life = "aborted") =>
        /\ pc = "bendXPBD"
        /\ ~FGt(last.dt, Zero)

C9_VelocityWrites ==
  (pc \in {"integrate", "reset", "bendPBD", "bendXPBD", "stretch"}) => m_vs' = m_vs

C9_PhaseOrder == []C9_PhaseState /\ [][C9_VelocityWrites]_vars

\* a Step with two iterations of a bend pass and a stretch pass has ended
C9_Witness ==
  /\ AfterStep /\ ~FEq(last.dt, Zero)
  /\ last.iterations = 2
  /\ Len(trace) = 8
  /\ \E i \in DOMAIN m_vs : m_vs[i] # VZero

\* C10: each of the eight pointers the destructor passes to b2Free is null or
\* a block allocated by Initialize.
C10_FreesOwnedOrNull ==
  life = "destroyed" =>
     /\ Len(freed) = 8
     /\ \A k \in 1 .. Len(freed) : freed[k] \in {"null", "block"}

(***************************************************************************)
(* SolveStretch on one constraint, as a function of its inputs.  The       *)
(* inputs are edges along an axis with a length that is a power of two,    *)
(* and inverse masses whose shares are multiples of 1/8, so that no        *)
(* operation rounds and the equalities below are those of the code.        *)
(***************************************************************************)
Quarter == FDyadic(1, 2)

StretchEdges ==
  {Pt(1, 0), Pt(2, 0), Pt(0, 4), Pt(-2, 0), V2(Zero, FNeg(Half)), Pt(0, 0)}

StretchMasses ==
  {<<One, One>>, <<One, FInt(3)>>, <<FInt(3), One>>, <<One, FInt(7)>>,
   <<Zero, One>>, <<One, Zero>>, <<Zero, Zero>>}

StretchInputs ==
  {[op |-> "StretchProject", done |-> FALSE,
    p1 |-> p1, p2 |-> VAdd(p1, e), im1 |-> im[1], im2 |-> im[2],
    L0 |-> L0, k2 |-> k2,
    out |-> [p1 |-> p1, p2 |-> VAdd(p1, e), dz |-> FALSE]] :
     p1 \in {Pt(0, 0), Pt(1, -2)}, e \in StretchEdges, im \in StretchMasses,
     L0 \in {One, Two, Half, FInt(3)}, k2 \in {One, Half}}

InitStretch == Constructed /\ fn \in StretchInputs

\* lines 182-203, for one i
ProjectStretch ==
  /\ fn.op = "StretchProject" /\ ~fn.done
  /\ fn' = [fn EXCEPT !.done = TRUE,
                      !.out = StretchProject(fn.p1, fn.p2, fn.im1, fn.im2,
                                             fn.L0, fn.k2)]
  /\ UNCHANGED rope

NextStretch == ProjectStretch

SpecStretch == InitStretch /\ [][NextStretch]_vars

StretchClaim(p1, p2, im1, im2, L0, k, out, n, sum) ==
  /\ FEq(sum, Zero) => (out.p1 = p1 /\ out.p2 = p2)
  /\ (FGt(sum, Zero) /\ ~FEq(n.len, Zero)) =>
        /\ VEq(VSub(out.p1, p1),
               VNeg(VScale(FMul(FMul(k, FDiv(im1, sum)), FSub(L0, n.len)), n.v)))
        /\ VEq(VSub(out.p2, p2),
               VScale(FMul(FMul(k, FDiv(im2, sum)), FSub(L0, n.len)), n.v))
        /\ FEq(FMul(b2Distance(out.p1, p1), im2), FMul(b2Distance(out.p2, p2), im1))
        /\ (k = One) => FEq(b2Distance(out.p1, out.p2), L0)

\* C8: one stretch constraint with L # 0 and im1 + im2 > 0 moves particle i by
\* k * (im1 / (im1 + im2)) * (L0 - L) against the unit edge and particle i + 1
\* by k * (im2 / (im1 + im2)) * (L0 - L) along it: the displacements are in
\* the ratio im1 : im2 and with k = 1 the two end at distance L0; with
\* im1 + im2 == 0 neither moves.
C8_StretchProjection ==
  (fn.op = "StretchProject" /\ fn.done) =>
     StretchClaim(fn.p1, fn.p2, fn.im1, fn.im2, fn.L0, fn.k2, fn.out,
                  Normalize(VSub(fn.p2, fn.p1)), FAdd(fn.im1, fn.im2))

\* a constraint with inverse masses 1 and 3, k = 1 and L # L0 has been
\* projected and both ends have moved
C8_Witness ==
  /\ fn.op = "StretchProject" /\ fn.done
  /\ fn.k2 = One /\ fn.im1 = One /\ fn.im2 = FInt(3)
  /\ fn.out.p1 # fn.p1 /\ fn.out.p2 # fn.p2
  /\ b2Distance(fn.p1, fn.p2) # fn.L0

(***************************************************************************)
(* The two wrap loops of the bend routines (lines 260-272, 344-355,        *)
(* 431-444), one pass at a time.                                           *)
(***************************************************************************)
MeasuredAngles ==
  {Zero, FDiv(b2_pi, Two), FNeg(FDiv(b2_pi, Two)), b2_pi, One, FInt(-3)}

ModestRests == {Zero, FDiv(b2_pi, Two), FInt(7), FInt(-7), FInt(20), FInt(-20)}

WrapInput(measured, rest, eps) ==
  [op |-> "WrapAngle", pc |-> "down", measured |-> measured, rest |-> rest,
   eps |-> eps, angle |-> measured]

\* a rest angle far from (-pi, pi]: 2^30
FarRest == F(0, Pow2(Prec - 1), 30 - (Prec - 1))

\* The loops on their way to a far rest angle.  From the measured angle pi/2
\* and the rest angle 2^30 the first loop does not run and the second is, after
\* its 18092329th pass, at angle = 2^27 - 32: from 2^26 on the floats are the
\* multiples of 8 and a pass, which adds 2*pi, moves angle to the next of
\* them.  With the rest angle -2^30 the first loop is at -(2^27 - 32) after as
\* many passes.
LateAngle == FInt(134217696)

WrapLate ==
  {[op |-> "WrapAngle", pc |-> "up", measured |-> FDiv(b2_pi, Two),
    rest |-> FarRest, eps |-> Zero, angle |-> LateAngle],
   [op |-> "WrapAngle", pc |-> "down", measured |-> FDiv(b2_pi, Two),
    rest |-> FNeg(FarRest), eps |-> Zero, angle |-> FNeg(LateAngle)]}

WrapInputs ==
  {WrapInput(a, r, Zero) : a \in MeasuredAngles, r \in ModestRests}
  \cup {WrapInput(a, FSub(a, FAdd(b2_pi, Quarter)), Quarter) : a \in MeasuredAngles}

InitWrap == Constructed /\ fn \in WrapInputs \cup WrapLate

\* while (C > b2_pi) { angle -= 2 * b2_pi; C = angle - rest; }
WrapDownPass ==
  /\ fn.op = "WrapAngle" /\ fn.pc = "down"
  /\ WrapDownCond(fn.angle, fn.rest)
  /\ fn' = [fn EXCEPT !.angle = WrapDownStep(fn.angle)]
  /\ UNCHANGED rope

WrapDownExit ==
  /\ fn.op = "WrapAngle" /\ fn.pc = "down"
  /\ ~WrapDownCond(fn.angle, fn.rest)
  /\ fn' = [fn EXCEPT !.pc = "up"]
  /\ UNCHANGED rope

\* while (C < -b2_pi) { angle += 2.0f * b2_pi; C = angle - rest; }
WrapUpPass ==
  /\ fn.op = "WrapAngle" /\ fn.pc = "up"
  /\ WrapUpCond(fn.angle, fn.rest)
  /\ fn' = [fn EXCEPT !.angle = WrapUpStep(fn.angle)]
  /\ UNCHANGED rope

WrapUpExit ==
  /\ fn.op = "WrapAngle" /\ fn.pc = "up"
  /\ ~WrapUpCond(fn.angle, fn.rest)
  /\ fn' = [fn EXCEPT !.pc = "done"]
  /\ UNCHANGED rope

NextWrap == WrapDownPass \/ WrapDownExit \/ WrapUpPass \/ WrapUpExit

SpecWrap == InitWrap /\ [][NextWrap]_vars

\* C = angle - rest lies in [-pi, pi]
WrapInRange(C) == ~FGt(C, b2_pi) /\ ~FLt(C, FNeg(b2_pi))

\* |C - target| is within rounding: less than 2^-20
WrapNear(C, target) == FLt(WithSign(0, FSub(C, target)), FDyadic(1, 20))

\* C6: for a measured angle in (-pi, pi] and any finite rest angle the two
\* wrap loops terminate, with C in [-pi, pi]; a raw difference of pi + eps
\* ends as C = -pi + eps (to within the rounding of the subtractions).
\* Termination is stated on the single pass: a pass that runs changes the
\* angle (each loop is deterministic in the angle, so a pass that leaves it
\* alone repeats for ever).
C6_WrapTerminates ==
  (fn.op = "WrapAngle") =>
     /\ (fn.pc = "down" /\ WrapDownCond(fn.angle, fn.rest)) =>
           WrapDownStep(fn.angle) # fn.angle
     /\ (fn.pc = "up" /\ WrapUpCond(fn.angle, fn.rest)) =>
           WrapUpStep(fn.angle) # fn.angle
     /\ (fn.pc = "done") =>
           /\ WrapInRange(FSub(fn.angle, fn.rest))
           /\ (fn.eps # Zero) =>
                 WrapNear(FSub(fn.angle, fn.rest), FAdd(FNeg(b2_pi), fn.eps))
=============================================================================
